---- MODULE Spec2Model ----
(***************************************************************************)
(* A model of bridge.cpp: the native bridge that owns one inference engine *)
(* (model, context, vocabulary, sampler chain, multimodal projector), a    *)
(* global configuration patched from JSON, and a polled cancellation flag. *)
(*                                                                         *)
(* The wrapped engine is an environment: every engine call that can fail   *)
(* fails or succeeds nondeterministically, and every engine call made on a *)
(* handle whose object has been released is undefined behaviour, modelled  *)
(* as a choice between a crash of the process and the call going through.  *)
(***************************************************************************)
EXTENDS Integers, Sequences, FiniteSets, TLC

VARIABLES
    g_conf,         \* GlobalConfig g_conf
    g_model,        \* llama_model*   (0 is nullptr, k > 0 the k-th model object)
    g_ctx,          \* llama_context*
    g_vocab,        \* const llama_vocab* (the id of the model it belongs to)
    g_sampler,      \* llama_sampler*
    g_mtmd_ctx,     \* mtmd_context*
    g_cancel_flag,  \* bool g_cancel_flag, as the thread running infer reads it
    storePending,   \* a store of true by cancel_inference on another thread that
                    \* the thread running infer does not see yet (the flag is a
                    \* plain bool: unsynchronised accesses)
    made,           \* engine heap: per kind, how many objects were ever created
    live,           \* engine heap: per kind, the objects created and not released
    backend,        \* the engine backend is initialised
    crashed,        \* the process was terminated by a fatal signal
    pc,             \* position of the thread inside infer ("idle": not in infer)
    i,              \* infer: loop counter of the generation loop
    tok,            \* infer: the token sampled in the current iteration
    args,           \* infer: the arguments of the running call, until their last use
    ctxMem,         \* what the live context's memory holds
    samplerMem,     \* what the sampler chain holds: the tokens accepted so far
    cp,             \* load_model: the llama_context_params of its latest
                    \* llama_init_from_model call (<<>> before the first)
    params,         \* load_mmproj: the mtmd_context_params of its latest
                    \* mtmd_init_from_file call (<<>> before the first)
    evalArg,        \* infer: the g_conf.n_threads passed to the latest
                    \* mtmd_helper_eval_chunks call (0 before the first)
    gen,            \* history of the running infer call (see GenInit)
    cyc,            \* history: is the run so far made of load/free cycles
    given,          \* history: per key, the value most recently given to it
    atLoad,         \* history: g_conf as it was in the latest load_model call
                    \* that loaded a model
    last            \* history: the operation that ended last, and its result

vars == <<g_conf, g_model, g_ctx, g_vocab, g_sampler, g_mtmd_ctx, g_cancel_flag,
          storePending, made, live, backend, crashed, pc, i, tok, args, ctxMem,
          samplerMem, cp, params, evalArg, gen, cyc, given, atLoad, last>>

confVars == <<g_conf, given>>
handleVars == <<g_model, g_ctx, g_vocab, g_sampler, g_mtmd_ctx>>
heapVars == <<made, live, backend>>
paramVars == <<cp, params, atLoad>>
inferVars == <<pc, i, tok, args, ctxMem, samplerMem, evalArg, gen>>
flagVars == <<g_cancel_flag, storePending>>

-----------------------------------------------------------------------------
(* Bounds of the model *)

\* the engine creates at most MaxObjs objects of each kind; further creations fail
MaxObjs == 2
\* in Spec and SpecCancel the loaded model ends its reply after at most
\* MaxTokens tokens (in SpecGen it replies at any length)
MaxTokens == 2

(* Program constants *)

\* for (int i = 0; i < 4096; i++)
GenStepLimit == 4096
NULL == 0
Kinds == {"model", "ctx", "sampler", "mtmd"}

-----------------------------------------------------------------------------
(* GlobalConfig and configure_engine *)

GlobalConfig ==
    [n_threads |-> 4, n_threads_batch |-> 4, n_ctx |-> 2048, n_batch |-> 512,
     img_max_tokens |-> 128, kv_quant |-> TRUE]

\* the keys configure_engine looks for, in the order it looks for them
KeyOrder == <<"n_threads", "n_ctx", "n_batch", "img_max_tokens">>
RecognisedKeys == {KeyOrder[k] : k \in 1..Len(KeyOrder)}

\* JSON values given to a key: integers and a string.  A JSON integer is held
\* in 64 bits; it is written here as hi * 2^32 + lo with lo in the range of a
\* 32-bit int, so an integer that fits an int has hi = 0.
JInt(hi, lo) == [kind |-> "int", hi |-> hi, lo |-> lo]
JStr == [kind |-> "str", hi |-> 0, lo |-> 0]
Absent == [kind |-> "absent", hi |-> 0, lo |-> 0]

\* int x = j[key]: the implicit conversion of a JSON value to int.  A number is
\* cast to int, which keeps the low 32 bits of an integer; a value of any
\* other type throws type_error.
Convertible(val) == val.kind = "int"
ToInt(val) == val.lo

\* A document is text that does not parse ("malformed"), or JSON that is not
\* an object ("scalar"), or an object: each key absent or holding a value.
Malformed == [form |-> "malformed", obj |-> <<>>]
Scalar == [form |-> "scalar", obj |-> <<>>]
Object(f) == [form |-> "object", obj |-> f]

\* j.contains(key): false for every JSON value that is not an object
Contains(doc, key) ==
    /\ doc.form = "object"
    /\ key \in DOMAIN doc.obj
    /\ doc.obj[key].kind # "absent"

\* ApplyKeys with the four ifs chained by else: only the first key found is read
RECURSIVE ApplyKeys_ElseIf(_, _, _)
ApplyKeys_ElseIf(doc, conf, k) ==
    IF k > Len(KeyOrder) THEN [conf |-> conf, thrown |-> FALSE]
    ELSE LET key == KeyOrder[k] IN
         IF ~Contains(doc, key) THEN ApplyKeys_ElseIf(doc, conf, k + 1)
         ELSE IF ~Convertible(doc.obj[key]) THEN [conf |-> conf, thrown |-> TRUE]
         ELSE [conf |-> [conf EXCEPT ![key] = ToInt(doc.obj[key])], thrown |-> FALSE]

\* Lines 54-57, from the k-th key on: the configuration reached and whether an
\* exception left the sequence of assignments early.
RECURSIVE ApplyKeys(_, _, _)
ApplyKeys(doc, conf, k) ==
    IF k > Len(KeyOrder) THEN [conf |-> conf, thrown |-> FALSE]
    ELSE LET key == KeyOrder[k] IN
         IF ~Contains(doc, key) THEN ApplyKeys(doc, conf, k + 1)
         ELSE IF ~Convertible(doc.obj[key]) THEN [conf |-> conf, thrown |-> TRUE]
         ELSE ApplyKeys(doc, [conf EXCEPT ![key] = ToInt(doc.obj[key])], k + 1)

\* TryConfigure with the parse error caught apart and the defaults restored
TryConfigure_ResetOnError(doc, conf) ==
    IF doc.form = "malformed" THEN [conf |-> GlobalConfig, thrown |-> TRUE]
    ELSE ApplyKeys(doc, conf, 1)

\* the whole try block: json::parse throws on malformed text before any
\* assignment is made
TryConfigure(doc, conf) ==
    IF doc.form = "malformed" THEN [conf |-> conf, thrown |-> TRUE]
    ELSE ApplyKeys(doc, conf, 1)

\* history: the value most recently given to each key by a call that returned 0
GivenAfter(doc, ret, g) ==
    [key \in RecognisedKeys |->
        IF ret = 0 /\ Contains(doc, key) THEN doc.obj[key] ELSE g[key]]

configure_engine(doc) ==
    /\ ~crashed /\ pc = "idle"
    /\ LET r == TryConfigure(doc, g_conf)
           ret == IF r.thrown THEN -1 ELSE 0
       IN /\ g_conf' = r.conf
          /\ given' = [g |-> GivenAfter(doc, ret, given.g),
                       allOk |-> given.allOk /\ ret = 0]
          /\ last' = [op |-> "configure_engine", ret |-> ret, arg |-> doc.form]
    /\ UNCHANGED <<handleVars, heapVars, paramVars, flagVars, inferVars,
                   crashed, cyc>>

-----------------------------------------------------------------------------
(* The engine's objects *)

IsLive(kind, h) == h \in live[kind]
\* a non-null handle whose object has been released
Dangling(kind, h) == h # NULL /\ ~IsLive(kind, h)

\* the heap after xxx_free(h): the object leaves the live ones (releasing an
\* object that is not live releases nothing)
Released(lv, kind, h) == [lv EXCEPT ![kind] = @ \ {h}]

\* the outcomes of undefined behaviour: when a call made undefined behaviour
\* happen the process may be killed by a fatal signal (signal_handler logs it
\* and re-raises it) or may go on
CrashChoices(undefined) == IF undefined THEN {FALSE, TRUE} ELSE {FALSE}

Crash(op) ==
    /\ crashed' = TRUE
    /\ last' = [op |-> "crash", ret |-> 0, arg |-> op]

-----------------------------------------------------------------------------
(* cancel_inference *)

\* has the running (or next) infer call not started generating yet: it has not
\* polled the flag for the first time
BeforeGeneration == pc \in {"idle", "reset", "prompt"} \/ (pc = "poll" /\ i = 0)

\* g_cancel_flag = true, on the caller's thread: the store is issued here and
\* reaches the thread running infer in StoreLands
cancel_inference ==
    /\ ~crashed
    /\ storePending' = TRUE
    /\ UNCHANGED <<confVars, handleVars, heapVars, paramVars, g_cancel_flag,
                   crashed,
                   inferVars, cyc, last>>

StoreLands ==
    /\ ~crashed
    /\ storePending
    /\ storePending' = FALSE
    /\ g_cancel_flag' = TRUE
    /\ gen' = [gen EXCEPT
                 !.reqPre = @ \/ BeforeGeneration,
                 !.setPre = @ \/ (pc = "prompt" \/ (pc = "poll" /\ i = 0))]
    /\ UNCHANGED <<confVars, handleVars, heapVars, paramVars, crashed,
                   pc, i, tok, args, ctxMem, samplerMem, evalArg,
                   cyc, last>>

-----------------------------------------------------------------------------
(* load_mmproj *)

\* MtmdParams with the image token budget left at the library's default
MtmdParams_DefaultBudget(conf) ==
    [use_gpu |-> FALSE, image_min_tokens |-> 32, image_max_tokens |-> 0]

\* lines 74-77: the parameters the projector is initialised with
MtmdParams(conf) ==
    [use_gpu |-> FALSE, image_min_tokens |-> 32,
     image_max_tokens |-> conf.img_max_tokens]

\* history of the load/free cycles: load_model opens a cycle, free_engine
\* closes it, load_mmproj and infer belong inside one
CycAfter(op) ==
    CASE op = "load_model" -> IF cyc = "out" THEN "in" ELSE "broken"
      [] op = "free_engine" -> IF cyc = "in" THEN "out" ELSE "broken"
      [] OTHER -> IF cyc = "in" THEN "in" ELSE "broken"

\* initOk: mtmd_init_from_file succeeds
load_mmproj(initOk, crash) ==
    /\ ~crashed /\ pc = "idle"
    /\ cyc' = CycAfter("load_mmproj")
    /\ IF g_model = NULL
       THEN /\ last' = [op |-> "load_mmproj", ret |-> -2, arg |-> "none"]
            /\ ~crash /\ ~initOk
            /\ UNCHANGED <<handleVars, heapVars, paramVars, crashed>>
       ELSE /\ crash \in CrashChoices(Dangling("mtmd", g_mtmd_ctx)
                                       \/ Dangling("model", g_model))
            /\ initOk => made.mtmd < MaxObjs
            /\ IF crash
               THEN Crash("load_mmproj") /\ UNCHANGED <<handleVars, heapVars,
                                                        paramVars>>
               ELSE LET freed == IF g_mtmd_ctx # NULL
                                 THEN Released(live, "mtmd", g_mtmd_ctx) ELSE live
                        new == made.mtmd + 1
                    IN /\ params' = MtmdParams(g_conf)
                       /\ g_mtmd_ctx' = IF initOk THEN new ELSE NULL
                       /\ made' = IF initOk THEN [made EXCEPT !.mtmd = new] ELSE made
                       /\ live' = IF initOk
                                  THEN [freed EXCEPT !.mtmd = @ \cup {new}] ELSE freed
                       /\ last' = [op |-> "load_mmproj",
                                   ret |-> IF initOk THEN 0 ELSE -1, arg |-> "none"]
                       /\ UNCHANGED <<g_model, g_ctx, g_vocab, g_sampler,
                                      backend,
                                      crashed, cp, atLoad>>
    /\ UNCHANGED <<confVars, flagVars, inferVars>>

-----------------------------------------------------------------------------
(* load_model *)

\* int / 2: the quotient truncated towards zero
Half(x) == IF x >= 0 THEN x \div 2 ELSE -((-x) \div 2)

\* lines 91-100: the parameters the context is created with
ContextParams(conf) ==
    [n_ctx |-> conf.n_ctx, n_threads |-> conf.n_threads,
     n_threads_batch |-> conf.n_threads, n_batch |-> conf.n_batch,
     n_ubatch |-> Half(conf.n_batch),
     type_kv |-> IF conf.kv_quant THEN "q8_0" ELSE "default"]

\* modelOk: llama_model_load_from_file succeeds; ctxOk: llama_init_from_model
\* succeeds
load_model(modelOk, ctxOk) ==
    /\ ~crashed /\ pc = "idle"
    /\ modelOk => made.model < MaxObjs
    /\ ctxOk => modelOk /\ made.ctx < MaxObjs
    /\ cyc' = CycAfter("load_model")
    /\ backend' = TRUE
    /\ atLoad' = IF modelOk THEN g_conf ELSE atLoad
    /\ LET m == made.model + 1
           c == made.ctx + 1
           s == made.sampler + 1
       IN IF ~modelOk
          THEN /\ g_model' = NULL
               /\ last' = [op |-> "load_model", ret |-> -1, arg |-> "none"]
               /\ UNCHANGED <<g_ctx, g_vocab, g_sampler, made, live, ctxMem,
                              samplerMem, cp>>
          ELSE IF ~ctxOk
          THEN /\ g_model' = m
               /\ g_vocab' = m
               /\ cp' = ContextParams(g_conf)
               /\ g_ctx' = NULL
               /\ made' = [made EXCEPT !.model = m]
               /\ live' = [live EXCEPT !.model = @ \cup {m}]
               /\ last' = [op |-> "load_model", ret |-> -2, arg |-> "none"]
               /\ UNCHANGED <<g_sampler, ctxMem, samplerMem>>
          ELSE /\ g_model' = m
               /\ g_vocab' = m
               /\ cp' = ContextParams(g_conf)
               /\ g_ctx' = c
               /\ g_sampler' = s
               /\ made' = [made EXCEPT !.model = m, !.ctx = c, !.sampler = s]
               /\ live' = [live EXCEPT !.model = @ \cup {m}, !.ctx = @ \cup {c},
                                       !.sampler = @ \cup {s}]
               /\ ctxMem' = "empty"
               /\ samplerMem' = "empty"
               /\ last' = [op |-> "load_model", ret |-> 0, arg |-> "none"]
    /\ UNCHANGED <<confVars, g_mtmd_ctx, flagVars, crashed, pc, i, tok, args,
                   gen,
                   params, evalArg>>

-----------------------------------------------------------------------------
(* free_engine *)

\* FreeCalls with the sampler chain forgotten
FreeCalls_NoSampler ==
    SelectSeq(<<[kind |-> "mtmd", h |-> g_mtmd_ctx],
                [kind |-> "model", h |-> g_model],
                [kind |-> "ctx", h |-> g_ctx]>>,
              LAMBDA c : c.h # NULL)

\* the release calls free_engine makes, in its order: one for each handle that
\* is not null
FreeCalls ==
    SelectSeq(<<[kind |-> "mtmd", h |-> g_mtmd_ctx],
                [kind |-> "sampler", h |-> g_sampler],
                [kind |-> "model", h |-> g_model],
                [kind |-> "ctx", h |-> g_ctx]>>,
              LAMBDA c : c.h # NULL)

\* the heap after the first n calls of a sequence of release calls
RECURSIVE ReleasedAll(_, _, _)
ReleasedAll(lv, calls, n) ==
    IF n = 0 THEN lv
    ELSE Released(ReleasedAll(lv, calls, n - 1), calls[n].kind, calls[n].h)

\* history: the release calls made, each with whether its object was live
RelLog(calls) ==
    [k \in 1..Len(calls) |->
        [kind |-> calls[k].kind, h |-> calls[k].h,
         wasLive |-> IsLive(calls[k].kind, calls[k].h)]]

\* The handles are left as they are: free_engine resets none of them.
free_engine(crash) ==
    /\ ~crashed /\ pc = "idle"
    /\ crash \in CrashChoices(\E k \in 1..Len(FreeCalls) :
                                 ~IsLive(FreeCalls[k].kind, FreeCalls[k].h))
    /\ IF crash
       THEN Crash("free_engine") /\ UNCHANGED <<heapVars, paramVars, cyc>>
       ELSE /\ live' = ReleasedAll(live, FreeCalls, Len(FreeCalls))
            /\ backend' = FALSE
            /\ cyc' = CycAfter("free_engine")
            /\ last' = [op |-> "free_engine", ret |-> 0, arg |-> RelLog(FreeCalls)]
            /\ UNCHANGED <<made, crashed, paramVars>>
    /\ UNCHANGED <<confVars, handleVars, flagVars, inferVars>>

-----------------------------------------------------------------------------
(* infer *)

\* history of one infer call
\*   cb       the callback was invoked in this call
\*   reqPre   a cancel_inference call took effect (the flag became true) before
\*            this call started generating
\*   setPre   the flag became true after this call reset it and before its first poll
\*   nSampled tokens sampled in this call
\*   cbTok    callback invocations made for the token of the current iteration
\*   dec      the result of the latest decode in this call
\*   eog      an end-of-generation token was sampled in this call
\*   cbAfter, decAfter, stepsAfter
\*            callbacks, decodes and steps of the generation loop made while
\*            the flag was true
GenInit ==
    [cb |-> FALSE, reqPre |-> FALSE, setPre |-> FALSE, nSampled |-> 0,
     cbTok |-> 0, dec |-> "none", eog |-> FALSE,
     cbAfter |-> 0, decAfter |-> 0, stepsAfter |-> 0]

NoArgs == [img |-> "null"]
\* const char* img: nullptr, "" or the path of an image
Images == {"null", "empty", "path"}

\* the handles infer uses refer to released objects
InferUndefined ==
    \/ Dangling("ctx", g_ctx)
    \/ Dangling("sampler", g_sampler)
    \/ Dangling("model", g_vocab)

CrashInInfer ==
    /\ Crash("infer")
    /\ UNCHANGED <<confVars, handleVars, heapVars, paramVars, flagVars,
                   inferVars, cyc>>

Counted(g) == IF g_cancel_flag THEN [g EXCEPT !.stepsAfter = @ + 1] ELSE g

\* line 118: if (!g_ctx || !g_sampler) return -1;
InferEnter(img) ==
    /\ ~crashed /\ pc = "idle"
    /\ cyc' = CycAfter("infer")
    /\ IF g_ctx = NULL \/ g_sampler = NULL
       THEN /\ last' = [op |-> "infer", ret |-> -1, arg |-> "none"]
            /\ img = "null"
            /\ UNCHANGED <<pc, args>>
       ELSE /\ pc' = "reset"
            /\ args' = [img |-> img]
            /\ UNCHANGED last
    /\ UNCHANGED <<confVars, handleVars, heapVars, paramVars, flagVars,
                   crashed, i, tok,
                   ctxMem, samplerMem, evalArg, gen>>

\* lines 119-120: g_cancel_flag = false; llama_memory_seq_rm(...)
InferReset(crash) ==
    /\ ~crashed /\ pc = "reset"
    /\ crash \in CrashChoices(Dangling("ctx", g_ctx))
    /\ IF crash THEN CrashInInfer
       ELSE /\ g_cancel_flag' = FALSE
            /\ ctxMem' = "empty"
            /\ pc' = "prompt"
            /\ UNCHANGED <<confVars, handleVars, heapVars, paramVars,
                           storePending, crashed,
                           i, tok, args, samplerMem, evalArg, gen, cyc, last>>

\* lines 122-143: the prompt is evaluated together with the image, or alone.
\* bmpOk: the image file loads; tokOk: mtmd_tokenize returns 0; decOk: the
\* evaluation of the prompt succeeds (its result is not looked at)
InferPrompt(bmpOk, tokOk, decOk, crash) ==
    /\ ~crashed /\ pc = "prompt"
    /\ LET joint == args.img = "path" /\ g_mtmd_ctx # NULL
       IN /\ crash \in CrashChoices(InferUndefined
                                     \/ (joint /\ Dangling("mtmd", g_mtmd_ctx)))
          /\ ~joint => bmpOk /\ tokOk
          /\ (joint /\ ~(bmpOk /\ tokOk)) => decOk
          /\ IF crash THEN CrashInInfer
             ELSE /\ IF joint /\ ~(bmpOk /\ tokOk)
                     THEN UNCHANGED <<ctxMem, gen, evalArg>>
                     ELSE /\ ctxMem' = IF ~decOk THEN "empty"
                                       ELSE IF joint THEN "joint" ELSE "text"
                          /\ evalArg' = IF joint THEN g_conf.n_threads
                                        ELSE evalArg
                          /\ gen' = [gen EXCEPT
                                       !.dec = IF decOk THEN "ok" ELSE "fail"]
                  /\ pc' = "poll"
                  /\ i' = 0
                  /\ args' = NoArgs
                  /\ UNCHANGED <<confVars, handleVars, heapVars, paramVars,
                                 flagVars, crashed,
                                 tok, samplerMem, cyc, last>>

\* InferPoll with the flag never polled
InferPoll_NoCancel(limit) ==
    /\ ~crashed /\ pc = "poll"
    /\ pc' = IF i < limit THEN "sample" ELSE "ret"
    /\ gen' = [Counted(gen) EXCEPT !.cbTok = 0]
    /\ UNCHANGED <<confVars, handleVars, heapVars, paramVars, flagVars,
                   crashed, i, tok,
                   args, ctxMem, samplerMem, evalArg, cyc, last>>

\* InferPoll with the flag polled in every other iteration only
InferPoll_EveryOther(limit) ==
    /\ ~crashed /\ pc = "poll"
    /\ pc' = IF i < limit /\ ~(g_cancel_flag /\ i % 2 = 0) THEN "sample" ELSE "ret"
    /\ gen' = [Counted(gen) EXCEPT !.cbTok = 0]
    /\ UNCHANGED <<confVars, handleVars, heapVars, paramVars, flagVars,
                   crashed, i, tok,
                   args, ctxMem, samplerMem, evalArg, cyc, last>>

\* InferPoll with the loop condition i <= limit
InferPoll_OffByOne(limit) ==
    /\ ~crashed /\ pc = "poll"
    /\ pc' = IF i <= limit /\ ~g_cancel_flag THEN "sample" ELSE "ret"
    /\ gen' = [Counted(gen) EXCEPT !.cbTok = 0]
    /\ UNCHANGED <<confVars, handleVars, heapVars, paramVars, flagVars,
                   crashed, i, tok,
                   args, ctxMem, samplerMem, evalArg, cyc, last>>

\* lines 145-146: i < limit, then if (g_cancel_flag) break;
InferPoll(limit) ==
    /\ ~crashed /\ pc = "poll"
    /\ pc' = IF i < limit /\ ~g_cancel_flag THEN "sample" ELSE "ret"
    /\ gen' = [Counted(gen) EXCEPT !.cbTok = 0]
    /\ UNCHANGED <<confVars, handleVars, heapVars, paramVars, flagVars,
                   crashed, i, tok,
                   args, ctxMem, samplerMem, evalArg, cyc, last>>

\* the tokens the sampler can draw: an end-of-generation token, a token whose
\* piece has n > 0 bytes, a token whose piece has none (n <= 0)
Tokens == {"eog", "text", "empty"}

\* lines 147-148: sample a token, break if it ends the generation.  The model
\* ends its reply with its replyCap-th token at the latest.
InferSample(t, replyCap, crash) ==
    /\ ~crashed /\ pc = "sample"
    /\ crash \in CrashChoices(InferUndefined)
    /\ i >= replyCap => t = "eog"
    /\ IF crash THEN CrashInInfer
       ELSE /\ tok' = t
            /\ pc' = IF t = "eog" THEN "ret" ELSE "emit"
            /\ gen' = [Counted(gen) EXCEPT !.nSampled = @ + 1,
                                           !.eog = @ \/ (t = "eog")]
            /\ UNCHANGED <<confVars, handleVars, heapVars, paramVars, flagVars,
                           crashed, i,
                           args, ctxMem, samplerMem, evalArg, cyc, last>>

\* lines 149-152: if (n > 0) cb(piece); llama_sampler_accept(g_sampler, id);
\* the chain holds every token accepted since it was created (nothing in
\* bridge.cpp resets it)
InferEmit(crash) ==
    /\ ~crashed /\ pc = "emit"
    /\ crash \in CrashChoices(InferUndefined)
    /\ IF crash THEN CrashInInfer
       ELSE /\ pc' = "decode"
            /\ gen' = IF tok = "text"
                      THEN [Counted(gen) EXCEPT
                              !.cb = TRUE, !.cbTok = @ + 1,
                              !.cbAfter = IF g_cancel_flag THEN @ + 1 ELSE @]
                      ELSE Counted(gen)
            /\ samplerMem' = "held"
            /\ UNCHANGED <<confVars, handleVars, heapVars, paramVars, flagVars,
                           crashed, i,
                           tok, args, ctxMem, evalArg, cyc, last>>

\* lines 153-154 and the i++ of line 145: if (llama_decode(...) != 0) break;
InferDecode(decOk, crash) ==
    /\ ~crashed /\ pc = "decode"
    /\ crash \in CrashChoices(InferUndefined)
    /\ IF crash THEN CrashInInfer
       ELSE /\ pc' = IF decOk THEN "poll" ELSE "ret"
            /\ i' = IF decOk THEN i + 1 ELSE i
            /\ gen' = [Counted(gen) EXCEPT
                         !.dec = IF decOk THEN "ok" ELSE "fail",
                         !.decAfter = IF g_cancel_flag THEN @ + 1 ELSE @]
            /\ UNCHANGED <<confVars, handleVars, heapVars, paramVars, flagVars,
                           crashed,
                           tok, args, ctxMem, samplerMem, evalArg, cyc, last>>

\* line 156: return 0;
InferReturn ==
    /\ ~crashed /\ pc = "ret"
    /\ pc' = "idle"
    /\ i' = 0
    /\ tok' = "none"
    /\ args' = NoArgs
    /\ gen' = GenInit
    /\ last' = [op |-> "infer", ret |-> 0, arg |-> "none"]
    /\ UNCHANGED <<confVars, handleVars, heapVars, paramVars, flagVars,
                   crashed, ctxMem,
                   samplerMem, evalArg, cyc>>

-----------------------------------------------------------------------------
(* Specifications *)

InitConf ==
    /\ g_conf = GlobalConfig
    /\ given = [g |-> [key \in RecognisedKeys |-> Absent], allOk |-> TRUE]

InitInfer ==
    /\ g_cancel_flag = FALSE
    /\ storePending = FALSE
    /\ crashed = FALSE
    /\ pc = "idle" /\ i = 0 /\ tok = "none" /\ args = NoArgs
    /\ ctxMem = "empty"
    /\ samplerMem = "empty"
    /\ evalArg = 0
    /\ gen = GenInit

\* the state after the static initialisers (lines 29-35)
Init ==
    /\ InitConf
    /\ InitInfer
    /\ g_model = NULL /\ g_ctx = NULL /\ g_vocab = NULL
    /\ g_sampler = NULL /\ g_mtmd_ctx = NULL
    /\ made = [k \in Kinds |-> 0]
    /\ live = [k \in Kinds |-> {}]
    /\ backend = FALSE
    /\ cyc = "out"
    /\ cp = <<>> /\ params = <<>> /\ atLoad = GlobalConfig
    /\ last = [op |-> "none", ret |-> 0, arg |-> "none"]

\* The operations that create and release the engine's objects, and infer:
\* one thread calls them in any order, with any outcome of the engine calls.
Infer(replyCap) ==
    \/ \E img \in Images : InferEnter(img)
    \/ \E crash \in BOOLEAN : InferReset(crash)
    \/ \E bmpOk, tokOk, decOk, crash \in BOOLEAN : InferPrompt(bmpOk, tokOk, decOk, crash)
    \/ InferPoll(GenStepLimit)
    \/ \E t \in Tokens, crash \in BOOLEAN : InferSample(t, replyCap, crash)
    \/ \E crash \in BOOLEAN : InferEmit(crash)
    \/ \E decOk, crash \in BOOLEAN : InferDecode(decOk, crash)
    \/ InferReturn

Next ==
    \/ \E modelOk, ctxOk \in BOOLEAN : load_model(modelOk, ctxOk)
    \/ \E initOk, crash \in BOOLEAN : load_mmproj(initOk, crash)
    \/ \E crash \in BOOLEAN : free_engine(crash)
    \/ Infer(MaxTokens)

Spec == Init /\ [][Next]_vars

\* configure_engine alone, given every document of Docs: text that does not
\* parse, JSON that is no object, an object with unrecognised keys only, and
\* every object in which each recognised key is absent or holds an integer that
\* fits an int, an integer that does not, or a string
ValuesGiven == {Absent, JInt(0, 8), JInt(1, 16), JStr}
Docs ==
    {Malformed, Scalar,
     Object([key \in {"kv_quant", "n_threads_batch"} |-> JInt(0, 8)])} \cup
    {Object(f) : f \in [RecognisedKeys -> ValuesGiven]}

NextConfig == \E doc \in Docs : configure_engine(doc)

SpecConfig == Init /\ [][NextConfig]_vars

\* One loaded engine, with or without a projector (the state after load_model
\* and load_mmproj succeeded on a fresh process).
InitGen ==
    /\ InitConf
    /\ InitInfer
    /\ g_model = 1 /\ g_ctx = 1 /\ g_vocab = 1 /\ g_sampler = 1
    /\ g_mtmd_ctx \in {NULL, 1}
    /\ made = [k \in Kinds |-> IF k = "mtmd" THEN g_mtmd_ctx ELSE 1]
    /\ live = [k \in Kinds |-> IF k = "mtmd" THEN {g_mtmd_ctx} \ {NULL} ELSE {1}]
    /\ backend = TRUE
    /\ cyc = "in"
    /\ cp = ContextParams(GlobalConfig)
    /\ params = IF g_mtmd_ctx = NULL THEN <<>> ELSE MtmdParams(GlobalConfig)
    /\ atLoad = GlobalConfig
    /\ last = [op |-> IF g_mtmd_ctx = NULL THEN "load_model" ELSE "load_mmproj",
               ret |-> 0, arg |-> "none"]

\* infer called again and again on the loaded engine, the model free to reply
\* at any length
NextGen == Infer(GenStepLimit)

SpecGen == InitGen /\ [][NextGen]_vars

\* infer on one thread and cancel_inference on another, on the loaded engine
NextCancel ==
    \/ cancel_inference
    \/ StoreLands
    \/ Infer(MaxTokens)

SpecCancel == InitGen /\ [][NextCancel]_vars

\* SpecCancel with the thread that runs infer never stopping for ever: every
\* engine call and every callback returns
FairCancel == SpecCancel /\ WF_vars(Infer(MaxTokens))

\* The engine loaded, used and reconfigured in between (never released):
\* configure_engine given a document that changes the thread count, the
\* batch size and the image token budget
DocsReconf ==
    {Object([key \in {"n_threads", "n_batch", "img_max_tokens"} |-> JInt(0, 8)])}

NextReconf ==
    \/ \E doc \in DocsReconf : configure_engine(doc)
    \/ \E modelOk, ctxOk \in BOOLEAN : load_model(modelOk, ctxOk)
    \/ \E initOk, crash \in BOOLEAN : load_mmproj(initOk, crash)
    \/ Infer(MaxTokens)

SpecReconf == Init /\ [][NextReconf]_vars

-----------------------------------------------------------------------------
(* Claims *)

InLoop == pc \in {"poll", "sample", "emit", "decode"}

\* C1 as stated: when cancel_inference has set the flag before an infer call on
\* a loaded engine starts generating (before the call was entered, or between
\* its entry and its first poll of the flag), the call invokes the callback
\* zero times.
C1_CancelBeforeGenerationNoCallback == gen.reqPre => ~gen.cb

\* C1 amended: when the flag becomes true after infer has reset it (line 119)
\* and before the first poll of the generation loop, the call invokes the
\* callback zero times and samples no token.
C1_CancelAfterResetNoCallback ==
    gen.setPre => ~gen.cb /\ gen.nSampled = 0 /\ pc \in {"prompt", "poll", "ret"}

C1_Witness == gen.setPre /\ pc = "ret" /\ ctxMem = "text"

\* C2: once the flag is true while infer runs its generation loop, the
\* callback is invoked at most one more time, at most one more decode is made,
\* the loop is left within four more steps of it, and infer returns.
C2_CancelHaltsWithinOneStep ==
    /\ [](gen.cbAfter <= 1 /\ gen.decAfter <= 1 /\ gen.stepsAfter <= 4)
    /\ [][(pc = "poll" /\ g_cancel_flag /\ pc' # pc) => pc' = "ret"]_vars
    /\ (g_cancel_flag /\ InLoop) ~> (pc = "idle")

C2_Witness == pc = "ret" /\ gen.cbAfter = 1 /\ gen.decAfter = 1 /\ gen.stepsAfter = 4

\* g_model refers to no loaded model: it is null or its model was released
NoLoadedModel == ~IsLive("model", g_model)
\* infer has a context and a sampler chain to work on
LoadedForInfer == IsLive("ctx", g_ctx) /\ IsLive("sampler", g_sampler)

LoadMmprojStep == \E initOk, crash \in BOOLEAN : load_mmproj(initOk, crash)
InferEnterStep == \E img \in Images : InferEnter(img)

\* C3 as stated: whenever no loaded model exists (none was ever loaded, the
\* latest load_model failed to load it, or free_engine released it), load_mmproj
\* returns a negative status, creates no projector and releases nothing; and
\* with a loaded model and the projector initialising it returns 0.
C3_LoadMmprojNeedsModel ==
    /\ [][(LoadMmprojStep /\ NoLoadedModel) =>
            /\ last'.op = "load_mmproj" /\ last'.ret < 0
            /\ made' = made /\ live' = live /\ g_mtmd_ctx' = g_mtmd_ctx]_vars
    /\ [][(load_mmproj(TRUE, FALSE) /\ ~NoLoadedModel) =>
            last'.op = "load_mmproj" /\ last'.ret = 0]_vars

\* C4 as stated: free_engine is safe in every reachable state: it never faults
\* and every release call it makes is made on an object that is live.
C4_FreeEngineSafe ==
    /\ last.op = "crash" => last.arg # "free_engine"
    /\ last.op = "free_engine" =>
           \A k \in 1..Len(last.arg) : last.arg[k].wasLive

\* C5: while the run is made of cycles load_model, load_mmproj*, infer*,
\* free_engine, no model, context, sampler chain or projector created so far
\* is left unreleased when free_engine has returned.
C5_CyclesLeakNothing ==
    cyc = "out" => \A k \in Kinds : live[k] = {}

C5_Witness ==
    /\ cyc = "out" /\ last.op = "free_engine"
    /\ made = [k \in Kinds |-> MaxObjs]

\* C8 as stated: load_model returns -1 exactly when the model fails to load, -2
\* exactly when the model loads and the context is not created, 0 otherwise;
\* after 0 the model, vocabulary, context and sampler chain are live; after -1
\* or -2 a following infer call returns -1 and generates nothing.
C8_LoadModelFailsDistinctly ==
    /\ [][\A modelOk, ctxOk \in BOOLEAN :
            load_model(modelOk, ctxOk) =>
              /\ last'.op = "load_model"
              /\ last'.ret = (IF ~modelOk THEN -1 ELSE IF ~ctxOk THEN -2 ELSE 0)
              /\ last'.ret = 0 =>
                    /\ g_model' \in live'.model /\ g_vocab' \in live'.model
                    /\ g_ctx' \in live'.ctx /\ g_sampler' \in live'.sampler]_vars
    /\ [][(InferEnterStep /\ last.op = "load_model" /\ last.ret < 0) =>
            last'.op = "infer" /\ last'.ret = -1 /\ pc' = "idle"]_vars

\* C9 as stated: whenever no live context and sampler chain exist, infer
\* returns a negative status without invoking the callback or making an engine
\* call on the context or the sampler.
C9_InferNotLoaded ==
    [][(InferEnterStep /\ ~LoadedForInfer) =>
         last'.op = "infer" /\ last'.ret < 0 /\ pc' = "idle"]_vars

\* C6: configure_engine given text that does not parse returns -1 and leaves
\* every field of the configuration as it was.
C6_MalformedLeavesConfig ==
    [][configure_engine(Malformed) =>
         /\ last'.op = "configure_engine" /\ last'.ret = -1
         /\ \A f \in DOMAIN GlobalConfig : g_conf'[f] = g_conf[f]]_vars

C6_Witness ==
    /\ last.op = "configure_engine" /\ last.arg = "malformed" /\ last.ret = -1
    /\ \A key \in RecognisedKeys : g_conf[key] # GlobalConfig[key]

\* the fields no key of the document reaches
OtherFieldsKept ==
    /\ g_conf.n_threads_batch = GlobalConfig.n_threads_batch
    /\ g_conf.kv_quant = TRUE

\* C7 as stated: after successful configure_engine calls only, each of the four
\* fields equals the value given by the latest call that held its key, or its
\* default when no call held it; no other field has changed.
C7_FieldsEqualValuesGiven ==
    given.allOk =>
        /\ \A key \in RecognisedKeys :
              LET val == given.g[key] IN
              IF val.kind = "absent" THEN g_conf[key] = GlobalConfig[key]
              ELSE val.kind = "int" /\ val.hi = 0 /\ g_conf[key] = val.lo
        /\ OtherFieldsKept

\* C7 amended: ... each of the four fields equals the int that the value given
\* by the latest call that held its key converts to: the value itself when it
\* is an integer in the range of int, its low 32 bits when it is a larger integer.
C7_FieldsEqualValuesConverted ==
    given.allOk =>
        /\ \A key \in RecognisedKeys :
              LET val == given.g[key] IN
              IF val.kind = "absent" THEN g_conf[key] = GlobalConfig[key]
              ELSE val.kind = "int" /\ g_conf[key] = val.lo
        /\ OtherFieldsKept

C7_Witness ==
    /\ given.allOk /\ last.op = "configure_engine"
    /\ given.g["n_threads"] = JInt(0, 8) /\ g_conf.n_threads = 8
    /\ given.g["n_ctx"] = JInt(1, 16) /\ g_conf.n_ctx = 16
    /\ given.g["n_batch"] = Absent /\ g_conf.n_batch = 512
    /\ given.g["img_max_tokens"] = JInt(0, 8)

\* how far an infer call has come: grows with every step of the call
Rank ==
    CASE pc = "reset" -> 0 [] pc = "prompt" -> 1 [] pc = "poll" -> 2
      [] pc = "sample" -> 3 [] pc = "emit" -> 4 [] pc = "decode" -> 5
      [] pc = "ret" -> 7 [] OTHER -> 8
Progress == 4 * i + Rank

\* C10: an infer call on a loaded engine ends: every step of it advances a
\* bounded measure; it samples at most 4096 tokens and invokes the callback at
\* most once for each token sampled; the first end-of-generation token ends it,
\* is not passed to the callback, and no token is sampled or decoded after it.
C10_InferTerminates ==
    /\ [](/\ i <= GenStepLimit
          /\ gen.nSampled <= GenStepLimit
          /\ pc \in {"poll", "sample"} => gen.nSampled = i
          /\ pc \in {"emit", "decode"} => gen.nSampled = i + 1
          /\ gen.nSampled \in {i, i + 1}
          /\ gen.cbTok <= 1
          /\ gen.cbTok = 1 => tok = "text" /\ pc \in {"decode", "poll", "ret"}
          /\ gen.cb => gen.nSampled >= 1
          /\ gen.eog => pc = "ret" /\ tok = "eog" /\ gen.cbTok = 0
          /\ pc # "idle" => Progress <= 4 * GenStepLimit + 7)
    /\ [][pc # "idle" /\ pc' # "idle" => Progress' > Progress]_vars
    /\ [][pc = "ret" =>
            pc' \in {"ret", "idle"} /\ (pc' = "ret" => gen' = gen)]_vars

C10_Witness ==
    pc = "ret" /\ i = GenStepLimit /\ gen.nSampled = GenStepLimit /\ ~gen.eog /\ gen.cb

\* C11 as stated: within one infer call, once a decode (of the prompt or of a
\* generated token) has reported failure, no token is sampled and the callback
\* is not invoked afterwards in that call.
C11_StopsOnDecodeFailure ==
    [][gen.dec = "fail" =>
         gen'.nSampled <= gen.nSampled /\ gen'.cbTok <= gen.cbTok]_vars

\* C12 as stated: each global handle is null or refers to an object that was
\* created and has not been released (g_vocab: to a model not released).
C12_NonNullImpliesInitialized ==
    /\ g_model = NULL \/ IsLive("model", g_model)
    /\ g_ctx = NULL \/ IsLive("ctx", g_ctx)
    /\ g_vocab = NULL \/ IsLive("model", g_vocab)
    /\ g_sampler = NULL \/ IsLive("sampler", g_sampler)
    /\ g_mtmd_ctx = NULL \/ IsLive("mtmd", g_mtmd_ctx)

\* C13 as stated: in every infer call that passes its loaded-check the prompt
\* has been evaluated, by the joint path or by the text path, when the
\* generation loop samples its first token.
C13_PromptEvaluatedBeforeSampling ==
    InLoop => gen.dec # "none"

\* C14 as stated: at the point an infer call evaluates its prompt the context
\* memory holds no token of an earlier call and the sampler chain holds no
\* accepted token of an earlier call, whatever the earlier calls were.
C14_StartsFromClearedState ==
    pc = "prompt" => ctxMem = "empty" /\ samplerMem = "empty"

\* C15 as stated: after load_mmproj calls made while a model is loaded, at
\* most one projector is live, the projector the call replaces is released
\* exactly once (it was live when the call released it), and g_mtmd_ctx is the
\* projector the latest call created, or null with -1 returned when its
\* initialisation failed.
C15_LoadMmprojReplaces ==
    /\ [](Cardinality(live.mtmd) <= 1)
    /\ [][(LoadMmprojStep /\ ~NoLoadedModel) =>
            /\ last'.op = "load_mmproj" /\ last'.ret \in {0, -1}
            /\ g_mtmd_ctx # NULL => g_mtmd_ctx \in live.mtmd
            /\ last'.ret = 0 =>
                  /\ made'.mtmd = made.mtmd + 1
                  /\ g_mtmd_ctx' = made'.mtmd /\ live'.mtmd = {g_mtmd_ctx'}
            /\ last'.ret = -1 =>
                  /\ made'.mtmd = made.mtmd
                  /\ g_mtmd_ctx' = NULL /\ live'.mtmd = {}]_vars

ConfigureStep == \E doc \in Docs : configure_engine(doc)

\* C16 as stated: whenever configure_engine returns -1, for text that does not
\* parse or for a recognised key whose value cannot be read as an integer, no
\* field of the configuration has changed.
C16_ConfigureAllOrNothing ==
    [][(ConfigureStep /\ last'.ret = -1) =>
         \A f \in DOMAIN GlobalConfig : g_conf'[f] = g_conf[f]]_vars

ConfigureReconfStep == \E doc \in DocsReconf : configure_engine(doc)

\* the projector is initialised by this step
ProjectorInitStep ==
    LoadMmprojStep /\ last'.op = "load_mmproj" /\ last'.ret \in {0, -1}
\* the prompt is evaluated together with an image by this step
JointEvalStep ==
    /\ \E bmpOk, tokOk, decOk, crash \in BOOLEAN :
          InferPrompt(bmpOk, tokOk, decOk, crash)
    /\ args.img = "path" /\ g_mtmd_ctx # NULL /\ gen'.dec # "none"

\* C17 as stated: the configuration is read at model-load time: what a
\* load_mmproj or infer call reads from it is what load_model found there, so
\* a configure_engine call made after load_model changes neither.
C17_ConfigReadAtLoadOnly ==
    /\ [][ProjectorInitStep =>
            params'.image_max_tokens = atLoad.img_max_tokens]_vars
    /\ [][JointEvalStep => evalArg' = atLoad.n_threads]_vars

\* C17 amended: each call reads the configuration when it is made.  The
\* context's parameters are those load_model found (a later configure_engine
\* changes nothing of the context, the projector or a past evaluation);
\* load_mmproj gives the projector the image token budget current at its own
\* call, and infer passes the thread count current at its own call.
C17_ConfigReadAtEachCall ==
    /\ [][ConfigureReconfStep =>
            cp' = cp /\ params' = params /\ evalArg' = evalArg]_vars
    /\ [][\A modelOk, ctxOk \in BOOLEAN :
            (load_model(modelOk, ctxOk) /\ modelOk) =>
               /\ cp'.n_ctx = g_conf.n_ctx /\ cp'.n_batch = g_conf.n_batch
               /\ cp'.n_ubatch = Half(g_conf.n_batch)
               /\ cp'.n_threads = g_conf.n_threads
               /\ cp'.n_threads_batch = g_conf.n_threads
               /\ cp'.type_kv = "q8_0"]_vars
    /\ [](IsLive("ctx", g_ctx) => cp.n_ctx = atLoad.n_ctx
                                   /\ cp.n_batch = atLoad.n_batch
                                   /\ cp.n_threads = atLoad.n_threads)
    /\ [][ProjectorInitStep =>
            /\ params'.image_max_tokens = g_conf.img_max_tokens
            /\ params'.image_min_tokens = 32 /\ ~params'.use_gpu]_vars
    /\ [][JointEvalStep => evalArg' = g_conf.n_threads]_vars

C17_Witness ==
    /\ IsLive("ctx", g_ctx) /\ IsLive("mtmd", g_mtmd_ctx)
    /\ atLoad = GlobalConfig /\ cp = ContextParams(GlobalConfig)
    /\ g_conf.n_threads = 8 /\ g_conf.img_max_tokens = 8
    /\ params.image_max_tokens = 8 /\ evalArg = 8
    /\ pc = "poll" /\ ctxMem = "joint"

\* C18 as stated: in every free_engine call the projector and the context,
\* both created from the model, are released before the model is, and the
\* backend is released when every object has been (free_engine is one step
\* here: the order checked is that of its release calls).
C18_DependantsReleasedFirst ==
    last.op = "free_engine" =>
        /\ \A a, b \in 1..Len(last.arg) :
              (last.arg[a].kind = "model" /\ last.arg[b].kind \in {"mtmd", "ctx"})
                 => b < a
        /\ ~backend
====
